---- MODULE Spec2Model ----
(***************************************************************************)
(* Authentication core of pos-core-api: AuthService (login, refresh,       *)
(* logout, token issuing, the in-memory refresh-token registry) and the    *)
(* UsersService operations that change what the auth core reads; and the   *)
(* access control: roles, grants, PermissionsGuard, and the UsersService   *)
(* and RolesService operations that administer them.                       *)
(*                                                                         *)
(* Request handlers are async functions on a single-threaded event loop:   *)
(* a handler runs without interruption until it awaits an I/O promise      *)
(* (a Prisma query, bcrypt), where other handlers may run.  Each in-flight *)
(* request occupies a slot of `procs`; its `pc` is the await it is parked  *)
(* at, and one action is the code between two I/O awaits.  A database read *)
(* or write takes effect in the action that resumes from its await.  A     *)
(* handler whose awaits touch nothing another handler reads in between     *)
(* (logout, changeStatus) is one action.                                   *)
(* signAsync resolves on the microtask / nextTick queue without I/O, so    *)
(* the code after `await this.generateTokens(...)` belongs to the same     *)
(* action as the code before it.                                           *)
(***************************************************************************)
EXTENDS Integers, Sequences, FiniteSets, TLC

VARIABLES
    users,      \* table "users": id -> row
    registry,   \* AuthService.refreshTokens: function token -> userId
    now,        \* clock reading in seconds, Math.floor(Date.now() / 1000)
    procs,      \* request slots: position and locals of each in-flight handler
    resp,       \* the response sent last: operation, outcome, exception caught
    config,     \* the validated environment (ConfigService)
    issued,     \* every refresh token generateTokens has returned to a client
    used,       \* history: refresh tokens a refresh call has succeeded with
    revoked,    \* history: issued refresh tokens logout has been executed for
    stale,      \* history: per slot, which of `used` and `revoked` held the
                \* token of the parked refresh when the call was made
    calls,      \* history: per slot, the last assignRoles call that reached
                \* its transaction, and whether another one overlapped it
    gate,       \* history: the last guard check of a user for a key, and
                \* whether the check before it answered the same request
                \* differently
    roles,           \* table "roles": id -> name
    rolePermissions, \* table "role_permissions": rows <<roleId, permissionId>>
    userRoles,       \* table "user_roles": rows <<userId, roleId>>
    userBranches,    \* table "user_branches": rows <<userId, branchId, isDefault>>
    jobs             \* request slots of the role administration handlers

vars == <<users, registry, now, procs, resp, config, issued,
          used, revoked, stale, calls, gate,
          roles, rolePermissions, userRoles, userBranches, jobs>>

\* The state of the program and of its clients; the history variables are
\* recorded only by the specification SpecH.
state == <<users, registry, now, procs, resp, config, issued>>

history == <<used, revoked, stale, calls, gate>>

\* The tables of the access control and the handlers that administer them.
rbac == <<roles, rolePermissions, userRoles, userBranches, jobs>>

\* ---------------------------------------------------------------- bounds
MaxClock == 1
MaxUsers == 2
MaxRoles == 2

\* ------------------------------------------------------------ data values
\* Strings are sequences of characters, so that includes('@') is computed.
NULL == <<"null">>
EmptyString == <<>>
AdminEmail == <<"a", "@", "g">>
BobName == <<"b", "o", "b">>
AtName == <<"b", "@", "g">>

\* A property absent from a request body.
Undefined == <<"undefined">>

Never == 0 - 1

Procs == {"r1", "r2"}

Passwords == {"admin123", "hunter22"}

\* JS truthiness of a string | null value: null and "" are falsy.
Truthy(s) == s # NULL /\ s # EmptyString

\* String.prototype.includes for a one-character needle.
Includes(s, ch) == \E i \in 1..Len(s) : s[i] = ch

\* ------------------------------------------------------------------ bcrypt
hashPassword(password) == <<"bcrypt", password>>

comparePassword(password, hash) == hash = hashPassword(password)

\* ------------------------------------------------------------------ config
\* Environments accepted by validate(): the secrets and expirations are any
\* non-empty strings.  Expirations are timespans, here in clock ticks.
Configs ==
    {[JWT_SECRET |-> "access-secret", JWT_EXPIRATION |-> 1,
      REFRESH_TOKEN_SECRET |-> "refresh-secret", REFRESH_TOKEN_EXPIRATION |-> e]
       : e \in {1, 2}}

\* Environments a deployment may provide: the secrets equal or distinct,
\* one of them possibly empty; the expirations equal or distinct.
EnvInputs ==
    [JWT_SECRET : {"", "access-secret", "shared-secret"},
     JWT_EXPIRATION : {1},
     REFRESH_TOKEN_SECRET : {"", "refresh-secret", "shared-secret"},
     REFRESH_TOKEN_EXPIRATION : {1, 2}]

\* validate(): @IsString @IsNotEmpty on each of the four properties, and
\* no constraint that relates two of them.
validate(cfg) ==
    /\ cfg.JWT_SECRET # ""
    /\ cfg.JWT_EXPIRATION # 0
    /\ cfg.REFRESH_TOKEN_SECRET # ""
    /\ cfg.REFRESH_TOKEN_EXPIRATION # 0

\* ------------------------------------------------------------------ tokens
\* A JWT is determined by its claims, its iat/exp and the signing secret:
\* HS256 over the same header and payload with the same key is the same
\* string.  A token is modelled by exactly that content.
Token(sub, email, username, iat, expiresIn, secret) ==
    [sub |-> sub, email |-> email, username |-> username,
     iat |-> iat, exp |-> iat + expiresIn, secret |-> secret]

\* A string that is not a JWT at all.
Malformed == [sub |-> 0, email |-> NULL, username |-> NULL,
              iat |-> 0, exp |-> 0, secret |-> "garbage"]

NoToken == [sub |-> 0, email |-> NULL, username |-> NULL,
            iat |-> 0, exp |-> 0, secret |-> "none"]

\* jwtService.verify(token, {secret}): signature, then expiry
\* (expired when the clock has reached exp).
verify(token, secret, clock) == token.secret = secret /\ clock < token.exp

\* The payload of generateTokens: sub, email if truthy, username if truthy.
Claim(v) == IF Truthy(v) THEN v ELSE NULL

\* A payload built without the subject.
generateTokensNoSub(userId, email, username, clock, cfg) ==
    [accessToken  |-> Token(0, Claim(email), Claim(username), clock,
                            cfg.JWT_EXPIRATION, cfg.JWT_SECRET),
     refreshToken |-> Token(0, Claim(email), Claim(username), clock,
                            cfg.REFRESH_TOKEN_EXPIRATION,
                            cfg.REFRESH_TOKEN_SECRET)]

\* generateTokens: both tokens are signed from the same payload at the same
\* clock reading, each with its own secret and expiration.
generateTokens(userId, email, username, clock, cfg) ==
    [accessToken  |-> Token(userId, Claim(email), Claim(username), clock,
                            cfg.JWT_EXPIRATION, cfg.JWT_SECRET),
     refreshToken |-> Token(userId, Claim(email), Claim(username), clock,
                            cfg.REFRESH_TOKEN_EXPIRATION,
                            cfg.REFRESH_TOKEN_SECRET)]

\* The access token signed together with a refresh token.
AccessTwin(t, cfg) ==
    generateTokens(t.sub, t.email, t.username, t.iat, cfg).accessToken

\* ---------------------------------------------------------------- registry
\* Map.set, Map.has, Map.delete
registrySet(reg, token, userId) ==
    [t \in DOMAIN reg \cup {token} |-> IF t = token THEN userId ELSE reg[t]]

registryHas(reg, token) == token \in DOMAIN reg

registryDelete(reg, token) == [t \in DOMAIN reg \ {token} |-> reg[t]]

\* ------------------------------------------------------------------- users
\* prisma.user.findFirst({where: {email}}) / ({where: {username}}):
\* the matching rows; the unique indexes leave at most one.
FindByEmail(us, email) == {id \in DOMAIN us : us[id].email = email}

FindByUsername(us, username) == {id \in DOMAIN us : us[id].username = username}

Min(S) == CHOOSE x \in S : \A y \in S : x <= y

\* --------------------------------------------------------------- responses
Ok == [status |-> "ok", msg |-> ""]

Unauthorized(msg) == [status |-> "Unauthorized", msg |-> msg]

NotFound(msg) == [status |-> "NotFound", msg |-> msg]

Conflict(msg) == [status |-> "Conflict", msg |-> msg]

\* An exception no handler catches: the framework answers 500.
InternalError(msg) == [status |-> "InternalError", msg |-> msg]

\* op: the operation answered; res: what the client receives;
\* inner (history): the exception refresh's catch block caught, if any.
Response(op, res, inner) == [op |-> op, res |-> res, inner |-> inner]

NoResponse == Response("none", Ok, Ok)

\* ------------------------------------------------------------- validateUser
\* validateUser without the `!user.isActive` check.
validateUserSkipsActive(us, identifier, password) ==
    LET isEmail == Includes(identifier, "@")
        found == IF isEmail THEN FindByEmail(us, identifier)
                            ELSE FindByUsername(us, identifier)
    IN  IF found = {}
        THEN [res |-> Unauthorized("Invalid credentials"), id |-> 0]
        ELSE LET id == Min(found) IN
             IF ~comparePassword(password, us[id].passwordHash)
             THEN [res |-> Unauthorized("Invalid credentials"), id |-> 0]
             ELSE [res |-> Ok, id |-> id]

\* validateUser with a message of its own for the unknown identifier.
validateUserNamesUnknown(us, identifier, password) ==
    LET isEmail == Includes(identifier, "@")
        found == IF isEmail THEN FindByEmail(us, identifier)
                            ELSE FindByUsername(us, identifier)
    IN  IF found = {}
        THEN [res |-> Unauthorized("User not found"), id |-> 0]
        ELSE LET id == Min(found) IN
             IF ~us[id].isActive
             THEN [res |-> Unauthorized("User account is inactive"), id |-> 0]
             ELSE IF ~comparePassword(password, us[id].passwordHash)
             THEN [res |-> Unauthorized("Invalid credentials"), id |-> 0]
             ELSE [res |-> Ok, id |-> id]

validateUser(us, identifier, password) ==
    LET isEmail == Includes(identifier, "@")
        found == IF isEmail THEN FindByEmail(us, identifier)
                            ELSE FindByUsername(us, identifier)
    IN  IF found = {}
        THEN [res |-> Unauthorized("Invalid credentials"), id |-> 0]
        ELSE LET id == Min(found) IN
             IF ~us[id].isActive
             THEN [res |-> Unauthorized("User account is inactive"), id |-> 0]
             ELSE IF ~comparePassword(password, us[id].passwordHash)
             THEN [res |-> Unauthorized("Invalid credentials"), id |-> 0]
             ELSE [res |-> Ok, id |-> id]

\* ------------------------------------------------------------ request slots
NoUser == [id |-> 0, email |-> NULL, username |-> NULL]

\* pc: the await the handler is parked at ("idle": no handler in the slot);
\* user: the row a parked login has read; token: the refresh token a parked
\* refresh presented.
Idle == [pc |-> "idle", user |-> NoUser, token |-> NoToken]

Free(p) == procs[p].pc = "idle"

\* ---------------------------------------------------------------- initial
\* The database after the seed script: one active user, email only.
SeedUsers ==
    (1 :> [username |-> NULL, email |-> AdminEmail,
           passwordHash |-> hashPassword("admin123"),
           isActive |-> TRUE, lastLoginAt |-> Never])

\* Table "permissions": id -> key.  No operation of the services writes it;
\* the keys are those the controllers require.
PermissionKeys ==
    (1 :> "users.read") @@ (2 :> "users.assign_roles") @@ (3 :> "roles.read")

\* Table "branches": the ids of its rows.  No operation writes it.
BranchIds == {1, 2}

RoleManager == <<"m", "g", "r">>
RoleCashier == <<"c", "s", "h">>

NoRoles == [r \in {} |-> [name |-> NULL]]

\* A slot of `jobs`.  pc: the await the handler is parked at; id: the row
\* it works on; roleIds, name: the properties of its request body.
NoJob == [pc |-> "idle", id |-> 0, roleIds |-> <<>>, name |-> NULL]

NoCall == [id |-> 0, roleIds |-> <<>>, overlap |-> FALSE, res |-> "none"]

NoGate == [requiredPermission |-> "undefined", userId |-> 0,
           res |-> Ok, flipped |-> FALSE]

InitAuth ==
    /\ users = SeedUsers
    /\ registry = [t \in {} |-> 0]
    /\ now = 0
    /\ procs = [p \in Procs |-> Idle]
    /\ resp = NoResponse
    /\ config \in Configs
    /\ issued = {}
    /\ used = {}
    /\ revoked = {}
    /\ stale = [p \in Procs |-> {}]
    /\ calls = [j \in Procs |-> NoCall]
    /\ gate = NoGate

InitRbac(seedRoles, seedUserRoles) ==
    /\ roles = seedRoles
    /\ rolePermissions = {}
    /\ userRoles = seedUserRoles
    /\ userBranches = {}
    /\ jobs = [j \in Procs |-> NoJob]

\* The state after the seed script: no role yet.
Init == InitAuth /\ InitRbac(NoRoles, {})

\* The state after createRole has succeeded twice, under one of the
\* configurations (the access control reads none of it).
InitP ==
    /\ InitAuth
    /\ config.REFRESH_TOKEN_EXPIRATION = 1
    /\ InitRbac((1 :> [name |-> RoleManager]) @@ (2 :> [name |-> RoleCashier]),
                {})

\* The state after, in addition, assignRoles has given the user both roles.
InitG ==
    /\ InitAuth
    /\ config.REFRESH_TOKEN_EXPIRATION = 1
    /\ InitRbac((1 :> [name |-> RoleManager]) @@ (2 :> [name |-> RoleCashier]),
                {<<1, 1>>, <<1, 2>>})

\* The state after createUser has added a second user, who signs in by
\* username.
InitL ==
    /\ users = SeedUsers @@
               (2 :> [username |-> BobName, email |-> NULL,
                      passwordHash |-> hashPassword("hunter22"),
                      isActive |-> TRUE, lastLoginAt |-> Never])
    /\ registry = [t \in {} |-> 0]
    /\ now = 0
    /\ procs = [p \in Procs |-> Idle]
    /\ resp = NoResponse
    /\ config \in Configs
    /\ issued = {}
    /\ used = {}
    /\ revoked = {}
    /\ stale = [p \in Procs |-> {}]
    /\ calls = [j \in Procs |-> NoCall]
    /\ gate = NoGate
    /\ InitRbac(NoRoles, {})

\* The state after the seed script under any environment validate()
\* accepts.
InitE ==
    /\ users = SeedUsers
    /\ registry = [t \in {} |-> 0]
    /\ now = 0
    /\ procs = [p \in Procs |-> Idle]
    /\ resp = NoResponse
    /\ config \in {cfg \in EnvInputs : validate(cfg)}
    /\ issued = {}
    /\ used = {}
    /\ revoked = {}
    /\ stale = [p \in Procs |-> {}]
    /\ calls = [j \in Procs |-> NoCall]
    /\ gate = NoGate
    /\ InitRbac(NoRoles, {})

\* The state after createRole twice, assignRoles giving the user the first
\* role and assignPermissions granting that role users.read.
InitD ==
    /\ InitAuth
    /\ roles = (1 :> [name |-> RoleManager]) @@ (2 :> [name |-> RoleCashier])
    /\ rolePermissions = {<<1, 1>>}
    /\ userRoles = {<<1, 1>>}
    /\ userBranches = {}
    /\ jobs = [j \in Procs |-> NoJob]

\* The state after createUser has filled the table up to one user short of
\* the bound, createRole, assignRoles giving the first user the role and
\* assignPermissions granting the role users.read.
EarlierUsers ==
    [i \in 1..(MaxUsers - 1) |->
        IF i = 1 THEN SeedUsers[1]
        ELSE [username |-> <<"u", ToString(i)>>, email |-> NULL,
              passwordHash |-> hashPassword("hunter22"),
              isActive |-> TRUE, lastLoginAt |-> Never]]

InitF ==
    /\ users = EarlierUsers
    /\ registry = [t \in {} |-> 0]
    /\ now = 0
    /\ procs = [p \in Procs |-> Idle]
    /\ resp = NoResponse
    /\ config \in Configs
    /\ issued = {}
    /\ used = {}
    /\ revoked = {}
    /\ stale = [p \in Procs |-> {}]
    /\ calls = [j \in Procs |-> NoCall]
    /\ gate = NoGate
    /\ config.REFRESH_TOKEN_EXPIRATION = 1
    /\ roles = (1 :> [name |-> RoleManager])
    /\ rolePermissions = {<<1, 1>>}
    /\ userRoles = {<<1, 1>>}
    /\ userBranches = {}
    /\ jobs = [j \in Procs |-> NoJob]

\* Token strings a client can present: every token it was ever handed
\* (refresh or access) and a string that is no JWT.
TokenInputs ==
    issued \cup {AccessTwin(t, config) : t \in issued} \cup {Malformed}

\* LoginDto.identifier: a non-empty string.
LoginIdents == {AdminEmail, AtName, BobName}

\* The :id of a users route: the ids in use and one that is not.
UserIdInputs == 1..(MaxUsers + 1)

\* ------------------------------------------------------------------- login
\* login -> validateUser: findFirst, the three checks (comparePassword is a
\* function of the row read), up to `await this.prisma.user.update`.
LoginValidate(p) ==
    /\ Free(p)
    /\ \E ident \in LoginIdents, pw \in Passwords, dbOk \in BOOLEAN :
        LET v == validateUser(users, ident, pw)
        IN  IF ~dbOk
            THEN /\ resp' = Response("login", InternalError("findFirst"), Ok)
                 /\ UNCHANGED procs
            ELSE IF v.res # Ok
            THEN /\ resp' = Response("login", v.res, Ok)
                 /\ UNCHANGED procs
            ELSE /\ procs' = [procs EXCEPT ![p] =
                       [Idle EXCEPT !.pc = "login_update",
                                    !.user = [id |-> v.id,
                                              email |-> users[v.id].email,
                                              username |-> users[v.id].username]]]
                 /\ UNCHANGED resp
    /\ UNCHANGED <<users, registry, now, config, issued>>

\* prisma.user.update({data: {lastLoginAt: new Date()}})
LoginUpdate(p) ==
    /\ procs[p].pc = "login_update"
    /\ \E dbOk \in BOOLEAN :
        IF dbOk
        THEN /\ users' = [users EXCEPT ![procs[p].user.id].lastLoginAt = now]
             /\ procs' = [procs EXCEPT ![p].pc = "login_tokens"]
             /\ UNCHANGED resp
        ELSE /\ resp' = Response("login", InternalError("update"), Ok)
             /\ procs' = [procs EXCEPT ![p] = Idle]
             /\ UNCHANGED users
    /\ UNCHANGED <<registry, now, config, issued>>

\* generateTokens(user.id, user.email, user.username); refreshTokens.set
LoginTokens(p) ==
    /\ procs[p].pc = "login_tokens"
    /\ \E signOk \in BOOLEAN :
        LET u == procs[p].user
            tokens == generateTokens(u.id, u.email, u.username, now, config)
        IN  IF signOk
            THEN /\ registry' = registrySet(registry, tokens.refreshToken, u.id)
                 /\ issued' = issued \cup {tokens.refreshToken}
                 /\ resp' = Response("login", Ok, Ok)
            ELSE /\ resp' = Response("login", InternalError("sign"), Ok)
                 /\ UNCHANGED <<registry, issued>>
    /\ procs' = [procs EXCEPT ![p] = Idle]
    /\ UNCHANGED <<users, now, config>>

\* ----------------------------------------------------------------- refresh
\* A catch block that lets the exception through.
refreshCatchRethrows(exception) ==
    IF exception.status = "Unauthorized" THEN exception
    ELSE InternalError("Internal server error")

\* catch { throw new UnauthorizedException('Invalid refresh token') }
refreshCatch(exception) == Unauthorized("Invalid refresh token")

\* The user check without `!user.isActive`.
userUsableIgnoresActive(us, id) == id \in DOMAIN us

\* `!user || !user.isActive`, negated
userUsable(us, id) == id \in DOMAIN us /\ us[id].isActive

\* refresh, up to `await this.prisma.user.findUnique`: verify, registry get,
\* `!userId || userId !== payload.sub`.
RefreshCall(p) ==
    /\ Free(p)
    /\ \E t \in TokenInputs :
        IF ~verify(t, config.REFRESH_TOKEN_SECRET, now)
        THEN /\ resp' = Response("refresh", refreshCatch(InternalError("jwt")),
                                 InternalError("jwt"))
             /\ UNCHANGED procs
        ELSE IF ~registryHas(registry, t) \/ registry[t] # t.sub
        THEN /\ resp' = Response("refresh",
                            refreshCatch(Unauthorized("Invalid refresh token")),
                            Unauthorized("Invalid refresh token"))
             /\ UNCHANGED procs
        ELSE /\ procs' = [procs EXCEPT ![p] =
                   [Idle EXCEPT !.pc = "refresh_find", !.token = t]]
             /\ UNCHANGED resp
    /\ UNCHANGED <<users, registry, now, config, issued>>

\* refresh, from the resolution of findUnique to the end: the user check,
\* refreshTokens.delete, generateTokens, refreshTokens.set.
RefreshResume(p) ==
    /\ procs[p].pc = "refresh_find"
    /\ \E dbOk \in BOOLEAN, signOk \in BOOLEAN :
        LET t == procs[p].token
            tokens == generateTokens(t.sub, users[t.sub].email,
                                     users[t.sub].username, now, config)
        IN  IF ~dbOk
            THEN /\ resp' = Response("refresh",
                                refreshCatch(InternalError("findUnique")),
                                InternalError("findUnique"))
                 /\ UNCHANGED <<registry, issued>>
            ELSE IF ~userUsable(users, t.sub)
            THEN /\ resp' = Response("refresh",
                          refreshCatch(Unauthorized("User not found or inactive")),
                          Unauthorized("User not found or inactive"))
                 /\ UNCHANGED <<registry, issued>>
            ELSE IF ~signOk
            THEN /\ registry' = registryDelete(registry, t)
                 /\ resp' = Response("refresh", refreshCatch(InternalError("sign")),
                                     InternalError("sign"))
                 /\ UNCHANGED issued
            ELSE /\ registry' = registrySet(registryDelete(registry, t),
                                            tokens.refreshToken, t.sub)
                 /\ issued' = issued \cup {tokens.refreshToken}
                 /\ resp' = Response("refresh", Ok, Ok)
    /\ procs' = [procs EXCEPT ![p] = Idle]
    /\ UNCHANGED <<users, now, config>>

\* ------------------------------------------------------------------ logout
\* A logout that rejects a token the registry does not hold.
logoutRejectsUnknown(reg, refreshToken) ==
    IF registryHas(reg, refreshToken)
    THEN [registry |-> registryDelete(reg, refreshToken), res |-> Ok]
    ELSE [registry |-> reg, res |-> Unauthorized("Invalid refresh token")]

\* logout(refreshToken): Map.delete, which never throws; returns normally.
logout(reg, refreshToken) ==
    [registry |-> registryDelete(reg, refreshToken), res |-> Ok]

Logout(t) ==
    /\ registry' = logout(registry, t).registry
    /\ resp' = Response("logout", logout(registry, t).res, Ok)
    /\ UNCHANGED <<users, now, procs, config, issued>>

\* ------------------------------------------------------------ changeStatus
\* UsersService.changeStatus: findUnique, update isActive, auditLog.create.
\* The audit trail is written and never read; its write either succeeds or
\* throws after the update has been persisted.
ChangeStatus ==
    /\ \E id \in UserIdInputs, isActive \in BOOLEAN, auditOk \in BOOLEAN :
        IF id \notin DOMAIN users
        THEN /\ resp' = Response("changeStatus",
                                 NotFound("Usuario no encontrado"), Ok)
             /\ UNCHANGED users
        ELSE /\ users' = [users EXCEPT ![id].isActive = isActive]
             /\ resp' = Response("changeStatus",
                           IF auditOk THEN Ok ELSE InternalError("auditLog"), Ok)
    /\ UNCHANGED <<registry, now, procs, config, issued>>

\* ------------------------------------------------- createUser / updateUser
\* class-validator: @IsOptional() skips the other validators of a property
\* that is undefined or null.
IsOptional(v) == v = Undefined \/ v = NULL

\* @IsEmail(): an address has a local part, an "@" and a domain.
IsEmail(v) == /\ Len(v) >= 3
              /\ Includes(v, "@")
              /\ v[1] # "@"
              /\ v[Len(v)] # "@"

\* @IsString() @MaxLength(100)
IsUsername(v) == Len(v) <= 100

\* CreateUserDto / UpdateUserDto: username and email as validated.
ValidUserDto(dto) ==
    /\ IsOptional(dto.username) \/ IsUsername(dto.username)
    /\ IsOptional(dto.email) \/ IsEmail(dto.email)

UsernameInputs == {Undefined, NULL, BobName, AtName}

EmailInputs == {Undefined, AtName, BobName}

CreateUserDtos ==
    {dto \in [username : UsernameInputs, email : EmailInputs,
              password : Passwords] : ValidUserDto(dto)}

UpdateUserDtos ==
    {dto \in [username : UsernameInputs, email : EmailInputs,
              isActive : {"undefined", "true", "false"}] : ValidUserDto(dto)}

\* A value written to a nullable column: an absent property leaves NULL.
Column(v) == IF v = Undefined THEN NULL ELSE v

\* The unique indexes users_username_key and users_email_key (NULLs are
\* distinct from each other).
UniqueUsers(us) ==
    \A a \in DOMAIN us, b \in DOMAIN us :
        a # b => /\ us[a].username = NULL \/ us[a].username # us[b].username
                 /\ us[a].email = NULL \/ us[a].email # us[b].email

\* UsersService.createUser: the two uniqueness pre-checks, prisma.user.create
\* (default isActive = true), auditLog.create.
CreateUser ==
    /\ Cardinality(DOMAIN users) < MaxUsers
    /\ \E dto \in CreateUserDtos, auditOk \in BOOLEAN :
        LET id == Cardinality(DOMAIN users) + 1
            row == [username |-> Column(dto.username),
                    email |-> Column(dto.email),
                    passwordHash |-> hashPassword(dto.password),
                    isActive |-> TRUE, lastLoginAt |-> Never]
            created == users @@ (id :> row)
        IN  IF Truthy(Column(dto.username))
               /\ FindByUsername(users, dto.username) # {}
            THEN /\ resp' = Response("createUser", Conflict("username"), Ok)
                 /\ UNCHANGED users
            ELSE IF Truthy(Column(dto.email))
                    /\ FindByEmail(users, dto.email) # {}
            THEN /\ resp' = Response("createUser", Conflict("email"), Ok)
                 /\ UNCHANGED users
            ELSE IF ~UniqueUsers(created)
            THEN /\ resp' = Response("createUser", InternalError("create"), Ok)
                 /\ UNCHANGED users
            ELSE /\ users' = created
                 /\ resp' = Response("createUser",
                        IF auditOk THEN Ok ELSE InternalError("auditLog"), Ok)
    /\ UNCHANGED <<registry, now, procs, config, issued>>

\* UsersService.updateUser: findUnique, the two uniqueness pre-checks for a
\* changed value, prisma.user.update of the properties present in the
\* body, auditLog.create.
UpdateUser ==
    /\ \E id \in UserIdInputs, dto \in UpdateUserDtos, auditOk \in BOOLEAN :
        IF id \notin DOMAIN users
        THEN /\ resp' = Response("updateUser",
                                 NotFound("Usuario no encontrado"), Ok)
             /\ UNCHANGED users
        ELSE
        LET user == users[id]
            row == [user EXCEPT
                      !.username = IF dto.username # Undefined
                                   THEN dto.username ELSE @,
                      !.email = IF dto.email # Undefined THEN dto.email ELSE @,
                      !.isActive = IF dto.isActive # "undefined"
                                   THEN dto.isActive = "true" ELSE @]
            updated == [users EXCEPT ![id] = row]
        IN  IF /\ Truthy(Column(dto.username))
               /\ dto.username # user.username
               /\ FindByUsername(users, dto.username) # {}
            THEN /\ resp' = Response("updateUser", Conflict("username"), Ok)
                 /\ UNCHANGED users
            ELSE IF /\ Truthy(Column(dto.email))
                    /\ dto.email # user.email
                    /\ FindByEmail(users, dto.email) # {}
            THEN /\ resp' = Response("updateUser", Conflict("email"), Ok)
                 /\ UNCHANGED users
            ELSE IF ~UniqueUsers(updated)
            THEN /\ resp' = Response("updateUser", InternalError("update"), Ok)
                 /\ UNCHANGED users
            ELSE /\ users' = updated
                 /\ resp' = Response("updateUser",
                        IF auditOk THEN Ok ELSE InternalError("auditLog"), Ok)
    /\ UNCHANGED <<registry, now, procs, config, issued>>

\* ------------------------------------------------------ getUserPermissions
RECURSIVE Ascending(_)
\* The rows of a findMany without orderBy, in primary-key order.
Ascending(S) ==
    IF S = {} THEN <<>>
    ELSE LET m == Min(S) IN <<m>> \o Ascending(S \ {m})

\* Set.prototype.add on a Set kept as the sequence of its insertion order.
SetAddKeepsDuplicates(set, key) == Append(set, key)

SetAdd(set, key) ==
    IF \E i \in 1..Len(set) : set[i] = key THEN set ELSE Append(set, key)

\* role.rolePermissions with permission included: the keys of one role.
rolePermissionKeys(roleId, rp) ==
    LET ids == Ascending({p \in DOMAIN PermissionKeys : <<roleId, p>> \in rp})
    IN  [i \in 1..Len(ids) |-> PermissionKeys[ids[i]]]

RECURSIVE AddAll(_, _)
\* rolePermissions.forEach((rp) => permissionKeys.add(rp.permission.key))
AddAll(set, keys) ==
    IF keys = <<>> THEN set
    ELSE AddAll(SetAdd(set, Head(keys)), Tail(keys))

RECURSIVE CollectKeys(_, _, _)
\* userRoles.forEach((ur) => ...)
CollectKeys(set, roleIds, rp) ==
    IF roleIds = <<>> THEN set
    ELSE CollectKeys(AddAll(set, rolePermissionKeys(Head(roleIds), rp)),
                     Tail(roleIds), rp)

\* A resolver that reads the first role of the user only.
getUserPermissionsFirstRole(userId, ur, rp) ==
    LET roleIds == Ascending({r \in DOMAIN roles : <<userId, r>> \in ur})
    IN  CollectKeys(<<>>, IF roleIds = <<>> THEN <<>> ELSE <<Head(roleIds)>>, rp)

\* AuthService.getUserPermissions: Array.from of the collected Set.
getUserPermissions(userId, ur, rp) ==
    CollectKeys(<<>>, Ascending({r \in DOMAIN roles : <<userId, r>> \in ur}), rp)

\* ------------------------------------------------------- PermissionsGuard
Forbidden(msg) == [status |-> "Forbidden", msg |-> msg]

\* The reflector finds no @RequirePermission metadata.
NoMetadata == "undefined"

\* request.user is absent, or has no id.
NoUserId == 0

\* The keys of prisma.permission.findMany where some rolePermission's role
\* has some userRole of the user.
guardPermissions(userId, ur, rp) ==
    {PermissionKeys[p] : p \in
        {q \in DOMAIN PermissionKeys :
            \E r \in DOMAIN roles : <<r, q>> \in rp /\ <<userId, r>> \in ur}}

\* The guard answering from what it resolved for the previous request.
canActivateCached(requiredPermission, userId, ur, rp) ==
    IF requiredPermission = NoMetadata \/ requiredPermission = ""
    THEN Ok
    ELSE IF userId = NoUserId
    THEN Unauthorized("Usuario no autenticado")
    ELSE IF /\ gate.requiredPermission = requiredPermission
            /\ gate.userId = userId
    THEN gate.res
    ELSE IF requiredPermission \in guardPermissions(userId, ur, rp)
    THEN Ok
    ELSE Forbidden("Permiso requerido: '" \o requiredPermission \o "'")

\* The guard looking for the user before the metadata.
canActivateUserFirst(requiredPermission, userId, ur, rp) ==
    IF userId = NoUserId
    THEN Unauthorized("Usuario no autenticado")
    ELSE IF requiredPermission = NoMetadata \/ requiredPermission = ""
    THEN Ok
    ELSE IF requiredPermission \in guardPermissions(userId, ur, rp)
    THEN Ok
    ELSE Forbidden("Permiso requerido: '" \o requiredPermission \o "'")

\* The guard accepting a key granted to any role.
canActivateAnyRole(requiredPermission, userId, ur, rp) ==
    IF requiredPermission = NoMetadata \/ requiredPermission = ""
    THEN Ok
    ELSE IF userId = NoUserId
    THEN Unauthorized("Usuario no autenticado")
    ELSE IF \E row \in rp : PermissionKeys[row[2]] = requiredPermission
    THEN Ok
    ELSE Forbidden("Permiso requerido: '" \o requiredPermission \o "'")

\* PermissionsGuard.canActivate
canActivate(requiredPermission, userId, ur, rp) ==
    IF requiredPermission = NoMetadata \/ requiredPermission = ""
    THEN Ok
    ELSE IF userId = NoUserId
    THEN Unauthorized("Usuario no autenticado")
    ELSE IF requiredPermission \in guardPermissions(userId, ur, rp)
    THEN Ok
    ELSE Forbidden("Permiso requerido: '" \o requiredPermission \o "'")

\* What @RequirePermission puts on a handler, and a handler without it.
RequiredInputs == {NoMetadata, "users.read", "users.assign_roles"}

GuardUserInputs == {NoUserId, 1}

\* The answer of the guard, with the request it answered.
GuardResponse(requiredPermission, userId, res) ==
    [op |-> "canActivate", res |-> res, inner |-> Ok,
     requiredPermission |-> requiredPermission, userId |-> userId]

\* A gated request reaches PermissionsGuard; the guard's only await is its
\* query.
GuardCheck ==
    /\ \E requiredPermission \in RequiredInputs, userId \in GuardUserInputs :
          resp' = GuardResponse(requiredPermission, userId,
                      canActivate(requiredPermission, userId,
                                  userRoles, rolePermissions))
    /\ UNCHANGED <<users, registry, now, procs, config, issued>>
    /\ UNCHANGED <<roles, rolePermissions, userRoles, userBranches, jobs>>

\* ------------------------------------------- replace-set (delete + insert)
Range(list) == {list[i] : i \in 1..Len(list)}

\* Request arrays that pass @IsArray @ArrayNotEmpty: one or two elements.
Lists(S) == {<<a>> : a \in S} \cup {<<a, b>> : a \in S, b \in S}

\* deleteMany without its where clause: the rows of every owner go.
deleteManyAllOwners(rows, id) == {}

\* deleteMany({where: {<owner column>: id}}) that deletes nothing.
deleteManyKeepsAll(rows, id) == rows

\* deleteMany({where: {<owner column>: id}}); the owner is the first column.
deleteMany(rows, id) == {row \in rows : row[1] # id}

\* createMany that inserts nothing.
createManyNone(rows, data) == rows

\* createMany({data})
createMany(rows, data) == rows \cup data

\* A batch that is not rolled back when its second statement fails.
transactionKeepsDelete(before, afterDelete, afterInsert, insertOk) ==
    IF insertOk THEN afterInsert ELSE afterDelete

\* prisma.$transaction([deleteMany, createMany]): both statements or
\* neither.
transaction(before, afterDelete, afterInsert, insertOk) ==
    IF insertOk THEN afterInsert ELSE before

\* What a replace-set call answers once its statements have run.
assignResult(txOk, auditOk) ==
    IF ~txOk THEN InternalError("transaction")
    ELSE IF ~auditOk THEN InternalError("auditLog")
    ELSE Ok

\* The answer of a replace-set call, with the request it answered.
AssignResponse(op, id, ids, res) ==
    [op |-> op, res |-> res, inner |-> Ok, id |-> id, ids |-> ids]

\* findMany({where: {id: {in: ids}}}) against the ids in use, the
\* comparison of the two lengths, and ids.filter((x) => !found.includes(x)).
checkIds(existing, ids) ==
    LET found == {x \in existing : x \in Range(ids)}
    IN  IF Cardinality(found) # Len(ids)
        THEN [ok |-> FALSE, missing |-> SelectSeq(ids, LAMBDA x : x \notin found)]
        ELSE [ok |-> TRUE, missing |-> <<>>]

\* NotFoundException(`... no encontrados: ids [${missing.join(', ')}]`)
NotFoundIds(msg, missing) ==
    [status |-> "NotFound", msg |-> msg, missing |-> missing]

\* ------------------------------------------------------------ assignRoles
RoleIdInputs == 1..(MaxRoles + 1)

\* UsersService.assignRoles up to its transaction: the user and every role
\* of the request exist.  Users and roles are never deleted, so the two
\* reads are one step.
AssignRolesCheck(j) ==
    /\ jobs[j].pc = "idle"
    /\ \E id \in UserIdInputs, roleIds \in Lists(RoleIdInputs) :
        LET check == checkIds(DOMAIN roles, roleIds) IN
        IF id \notin DOMAIN users
        THEN /\ resp' = Response("assignRoles",
                                 NotFound("Usuario no encontrado"), Ok)
             /\ UNCHANGED jobs
        ELSE IF ~check.ok
        THEN /\ resp' = AssignResponse("assignRoles", id, roleIds,
                            NotFoundIds("Roles no encontrados", check.missing))
             /\ UNCHANGED jobs
        ELSE /\ jobs' = [jobs EXCEPT ![j] =
                            [pc |-> "assignRoles_tx", id |-> id,
                             roleIds |-> roleIds, name |-> NULL]]
             /\ UNCHANGED resp
    /\ UNCHANGED <<users, registry, now, procs, config, issued>>
    /\ UNCHANGED <<roles, rolePermissions, userRoles, userBranches>>

\* UsersService.assignRoles from its transaction on: the transaction, the
\* audit entry, the answer (its body, read back from the tables, is not
\* modelled).
AssignRolesCommit(j) ==
    /\ jobs[j].pc = "assignRoles_tx"
    /\ \E txOk \in BOOLEAN, auditOk \in BOOLEAN :
        LET id == jobs[j].id
            roleIds == jobs[j].roleIds
            afterDelete == deleteMany(userRoles, id)
            afterInsert == createMany(afterDelete,
                                      {<<id, roleIds[i]>> : i \in 1..Len(roleIds)})
        IN  /\ userRoles' = transaction(userRoles, afterDelete, afterInsert, txOk)
            /\ resp' = AssignResponse("assignRoles", id, roleIds,
                                      assignResult(txOk, auditOk))
    /\ jobs' = [jobs EXCEPT ![j] = NoJob]
    /\ UNCHANGED <<users, registry, now, procs, config, issued>>
    /\ UNCHANGED <<roles, rolePermissions, userBranches>>

\* ------------------------------------------------------ assignPermissions
PermissionIdInputs == DOMAIN PermissionKeys \cup {Cardinality(DOMAIN PermissionKeys) + 1}

\* RolesService.assignPermissions.  The rows its checks read are never
\* deleted and its answer's body is not modelled, so the handler is one
\* step, at its transaction.
AssignPermissions ==
    /\ \E id \in RoleIdInputs, permissionIds \in Lists(PermissionIdInputs) :
        LET check == checkIds(DOMAIN PermissionKeys, permissionIds)
            afterDelete == deleteMany(rolePermissions, id)
            afterInsert == createMany(afterDelete,
                              {<<id, permissionIds[i]>> :
                                  i \in 1..Len(permissionIds)})
        IN
        IF id \notin DOMAIN roles
        THEN /\ resp' = Response("assignPermissions",
                                 NotFound("Rol no encontrado"), Ok)
             /\ UNCHANGED rolePermissions
        ELSE IF ~check.ok
        THEN /\ resp' = AssignResponse("assignPermissions", id, permissionIds,
                            NotFoundIds("Permisos no encontrados", check.missing))
             /\ UNCHANGED rolePermissions
        ELSE \E txOk \in BOOLEAN, auditOk \in BOOLEAN :
             /\ rolePermissions' = transaction(rolePermissions, afterDelete,
                                               afterInsert, txOk)
             /\ resp' = AssignResponse("assignPermissions", id, permissionIds,
                                       assignResult(txOk, auditOk))
    /\ UNCHANGED <<users, registry, now, procs, config, issued>>
    /\ UNCHANGED <<roles, userRoles, userBranches, jobs>>

\* --------------------------------------------------------- assignBranches
\* BranchAssignmentDto: branchId, and isDefault as sent.
BranchInputs ==
    [branchId : BranchIds \cup {Cardinality(BranchIds) + 1},
     isDefault : {"undefined", "true"}]

\* isDefault: b.isDefault ?? false
branchRow(id, b) == <<id, b.branchId, b.isDefault = "true">>

\* UsersService.assignBranches, one step for the reasons of
\* assignPermissions.
AssignBranches ==
    /\ \E id \in UserIdInputs, branches \in Lists(BranchInputs) :
        LET branchIds == [i \in 1..Len(branches) |-> branches[i].branchId]
            check == checkIds(BranchIds, branchIds)
            afterDelete == deleteMany(userBranches, id)
            afterInsert == createMany(afterDelete,
                              {branchRow(id, branches[i]) :
                                  i \in 1..Len(branches)})
        IN
        IF id \notin DOMAIN users
        THEN /\ resp' = Response("assignBranches",
                                 NotFound("Usuario no encontrado"), Ok)
             /\ UNCHANGED userBranches
        ELSE IF ~check.ok
        THEN /\ resp' = AssignResponse("assignBranches", id, branches,
                            NotFoundIds("Sucursales no encontradas", check.missing))
             /\ UNCHANGED userBranches
        ELSE \E txOk \in BOOLEAN, auditOk \in BOOLEAN :
             /\ userBranches' = transaction(userBranches, afterDelete,
                                            afterInsert, txOk)
             /\ resp' = AssignResponse("assignBranches", id, branches,
                                       assignResult(txOk, auditOk))
    /\ UNCHANGED <<users, registry, now, procs, config, issued>>
    /\ UNCHANGED <<roles, rolePermissions, userRoles, jobs>>

\* --------------------------------------------------- createRole / updateRole
\* CreateRoleDto.name: @IsString @IsNotEmpty @MaxLength(100)
RoleNameInputs == {RoleManager, RoleCashier}

\* UpdateRoleDto.name: @IsString @IsOptional @MaxLength(100)
RoleRenameInputs == {Undefined, EmptyString, RoleManager, RoleCashier}

\* prisma.role.findUnique({where: {name}})
FindRoleByName(rs, name) == {r \in DOMAIN rs : rs[r].name = name}

\* The unique index roles_name_key.
UniqueRoles(rs) ==
    \A a \in DOMAIN rs, b \in DOMAIN rs : a # b => rs[a].name # rs[b].name

\* The createRole calls parked before their insert.
Creating == {j \in Procs : jobs[j].pc = "createRole_create"}

\* RolesService.createRole up to prisma.role.create: the uniqueness
\* pre-check.
CreateRoleCheck(j) ==
    /\ jobs[j].pc = "idle"
    /\ Cardinality(DOMAIN roles) + Cardinality(Creating) < MaxRoles
    /\ \E name \in RoleNameInputs :
        IF FindRoleByName(roles, name) # {}
        THEN /\ resp' = Response("createRole", Conflict("name"), Ok)
             /\ UNCHANGED jobs
        ELSE /\ jobs' = [jobs EXCEPT ![j] =
                            [pc |-> "createRole_create", id |-> 0,
                             roleIds |-> <<>>, name |-> name]]
             /\ UNCHANGED resp
    /\ UNCHANGED <<users, registry, now, procs, config, issued>>
    /\ UNCHANGED <<roles, rolePermissions, userRoles, userBranches>>

\* RolesService.createRole from prisma.role.create on: the insert, which
\* the unique index refuses with an error no handler catches, and the
\* audit entry.
CreateRoleCreate(j) ==
    /\ jobs[j].pc = "createRole_create"
    /\ \E auditOk \in BOOLEAN :
        LET id == Cardinality(DOMAIN roles) + 1
            created == roles @@ (id :> [name |-> jobs[j].name])
        IN  IF ~UniqueRoles(created)
            THEN /\ resp' = Response("createRole",
                                     InternalError("Unique constraint failed"),
                                     Ok)
                 /\ UNCHANGED roles
            ELSE /\ roles' = created
                 /\ resp' = Response("createRole",
                        IF auditOk THEN Ok ELSE InternalError("auditLog"), Ok)
    /\ jobs' = [jobs EXCEPT ![j] = NoJob]
    /\ UNCHANGED <<users, registry, now, procs, config, issued>>
    /\ UNCHANGED <<rolePermissions, userRoles, userBranches>>

\* RolesService.updateRole up to prisma.role.update: findUnique and the
\* uniqueness pre-check of a changed, non-empty name.
UpdateRoleCheck(j) ==
    /\ jobs[j].pc = "idle"
    /\ \E id \in RoleIdInputs, name \in RoleRenameInputs :
        IF id \notin DOMAIN roles
        THEN /\ resp' = Response("updateRole",
                                 NotFound("Rol no encontrado"), Ok)
             /\ UNCHANGED jobs
        ELSE IF /\ Truthy(Column(name))
                /\ name # roles[id].name
                /\ FindRoleByName(roles, name) # {}
        THEN /\ resp' = Response("updateRole", Conflict("name"), Ok)
             /\ UNCHANGED jobs
        ELSE /\ jobs' = [jobs EXCEPT ![j] =
                            [pc |-> "updateRole_update", id |-> id,
                             roleIds |-> <<>>, name |-> name]]
             /\ UNCHANGED resp
    /\ UNCHANGED <<users, registry, now, procs, config, issued>>
    /\ UNCHANGED <<roles, rolePermissions, userRoles, userBranches>>

\* RolesService.updateRole from prisma.role.update on.
UpdateRoleUpdate(j) ==
    /\ jobs[j].pc = "updateRole_update"
    /\ \E auditOk \in BOOLEAN :
        LET id == jobs[j].id
            updated == [roles EXCEPT ![id].name =
                            IF jobs[j].name # Undefined THEN jobs[j].name ELSE @]
        IN  IF ~UniqueRoles(updated)
            THEN /\ resp' = Response("updateRole",
                                     InternalError("Unique constraint failed"),
                                     Ok)
                 /\ UNCHANGED roles
            ELSE /\ roles' = updated
                 /\ resp' = Response("updateRole",
                        IF auditOk THEN Ok ELSE InternalError("auditLog"), Ok)
    /\ jobs' = [jobs EXCEPT ![j] = NoJob]
    /\ UNCHANGED <<users, registry, now, procs, config, issued>>
    /\ UNCHANGED <<rolePermissions, userRoles, userBranches>>

\* ------------------------------------------------- authenticated requests
\* JwtAuthGuard: the bearer access token is verified by signature and
\* expiry with JWT_SECRET and nothing else; request.user is its subject.
jwtAuthGuard(token, cfg, clock) ==
    IF verify(token, cfg.JWT_SECRET, clock)
    THEN [res |-> Ok, id |-> token.sub]
    ELSE [res |-> Unauthorized("Unauthorized"), id |-> NoUserId]

\* getMe(userId): findUnique with the roles and branches of the row.
getMe(us, userId) ==
    IF userId \in DOMAIN us THEN Ok ELSE Unauthorized("User not found")

\* GET /me with bearer token a.
GetMe(a) ==
    /\ LET auth == jwtAuthGuard(a, config, now)
       IN  resp' = Response("getMe",
                            IF auth.res # Ok THEN auth.res
                            ELSE getMe(users, auth.id), Ok)
    /\ UNCHANGED <<users, registry, now, procs, config, issued>>

\* POST /auth/logout with bearer token a and refreshToken t in the body:
\* JwtAuthGuard, then authService.logout(t).  The answer is kept with the
\* request it answers.
LogoutResponse(userId, refreshToken, res) ==
    [op |-> "logout", res |-> res, inner |-> Ok,
     userId |-> userId, refreshToken |-> refreshToken]

LogoutAs(a, t) ==
    /\ LET auth == jwtAuthGuard(a, config, now)
       IN  IF auth.res # Ok
           THEN /\ resp' = LogoutResponse(NoUserId, t, auth.res)
                /\ UNCHANGED registry
           ELSE /\ registry' = logout(registry, t).registry
                /\ resp' = LogoutResponse(auth.id, t, logout(registry, t).res)
    /\ UNCHANGED <<users, now, procs, config, issued>>

\* A request with bearer token a to a handler of UsersController, behind
\* @UseGuards(JwtAuthGuard, PermissionsGuard): the guards run in that order
\* and PermissionsGuard sees the request.user JwtAuthGuard has set.
GatedRequest(a, requiredPermission) ==
    /\ LET auth == jwtAuthGuard(a, config, now)
       IN  resp' = IF auth.res # Ok
                   THEN GuardResponse(requiredPermission, NoUserId, auth.res)
                   ELSE GuardResponse(requiredPermission, auth.id,
                            canActivate(requiredPermission, auth.id,
                                        userRoles, rolePermissions))
    /\ UNCHANGED <<users, registry, now, procs, config, issued>>

\* ------------------------------------------------------------------- clock
Tick ==
    /\ now < MaxClock
    /\ now' = now + 1
    /\ UNCHANGED <<users, registry, procs, resp, config, issued>>

\* ----------------------------------------------------------- specifications
NoHistory == UNCHANGED history

NoRbac == UNCHANGED rbac

Next ==
    \/ \E p \in Procs : LoginValidate(p) /\ NoHistory /\ NoRbac
    \/ \E p \in Procs : LoginUpdate(p) /\ NoHistory /\ NoRbac
    \/ \E p \in Procs : LoginTokens(p) /\ NoHistory /\ NoRbac
    \/ \E p \in Procs : RefreshCall(p) /\ NoHistory /\ NoRbac
    \/ \E p \in Procs : RefreshResume(p) /\ NoHistory /\ NoRbac
    \/ \E t \in TokenInputs : Logout(t) /\ NoHistory /\ NoRbac
    \/ ChangeStatus /\ NoHistory /\ NoRbac
    \/ Tick /\ NoHistory /\ NoRbac

Spec == Init /\ [][Next]_vars

\* The same program with the history of refresh tokens recorded.
RefreshCallH(p) ==
    /\ RefreshCall(p)
    /\ stale' = [stale EXCEPT ![p] =
           IF procs'[p].pc = "refresh_find"
           THEN {h \in {"used", "revoked"} :
                   \/ h = "used" /\ procs'[p].token \in used
                   \/ h = "revoked" /\ procs'[p].token \in revoked}
           ELSE {}]
    /\ UNCHANGED <<used, revoked>>

RefreshResumeH(p) ==
    /\ RefreshResume(p)
    /\ used' = IF resp'.res = Ok THEN used \cup {procs[p].token} ELSE used
    /\ stale' = [stale EXCEPT ![p] = {}]
    /\ UNCHANGED revoked

LogoutH(t) ==
    /\ Logout(t)
    /\ revoked' = revoked \cup ({t} \cap issued)
    /\ UNCHANGED <<used, stale>>

NextH ==
    \/ \E p \in Procs : LoginValidate(p) /\ NoHistory /\ NoRbac
    \/ \E p \in Procs : LoginUpdate(p) /\ NoHistory /\ NoRbac
    \/ \E p \in Procs : LoginTokens(p) /\ NoHistory /\ NoRbac
    \/ \E p \in Procs : RefreshCallH(p) /\ UNCHANGED <<calls, gate>> /\ NoRbac
    \/ \E p \in Procs : RefreshResumeH(p) /\ UNCHANGED <<calls, gate>> /\ NoRbac
    \/ \E t \in TokenInputs : LogoutH(t) /\ UNCHANGED <<calls, gate>> /\ NoRbac
    \/ ChangeStatus /\ NoHistory /\ NoRbac
    \/ Tick /\ NoHistory /\ NoRbac

SpecH == Init /\ [][NextH]_vars

\* The user administration, and the credential check of login applied to
\* the tables it produces.
NextU ==
    \/ CreateUser /\ NoHistory /\ NoRbac
    \/ UpdateUser /\ NoHistory /\ NoRbac
    \/ LoginValidate("r1") /\ NoHistory /\ NoRbac

SpecU == Init /\ [][NextU]_vars

\* The access control: role and permission assignment, one assignRoles at a
\* time, and the guard.
NextP ==
    \/ AssignRolesCheck("r1") /\ NoHistory
    \/ AssignRolesCommit("r1") /\ NoHistory
    \/ AssignPermissions /\ NoHistory
    \/ GuardCheck /\ NoHistory

SpecP == InitP /\ [][NextP]_vars

\* The replace-set operations of a user, assignRoles calls overlapping.
NextA ==
    \/ \E j \in Procs : AssignRolesCheck(j) /\ NoHistory
    \/ \E j \in Procs : AssignRolesCommit(j) /\ NoHistory
    \/ AssignBranches /\ NoHistory

SpecA == InitP /\ [][NextA]_vars

\* assignRoles calls with their history.
AssignRolesCheckH(j) ==
    /\ AssignRolesCheck(j)
    /\ calls' =
          IF jobs'[j].pc # "assignRoles_tx" THEN calls
          ELSE [k \in Procs |->
                  IF k = j
                  THEN [id |-> jobs'[j].id, roleIds |-> jobs'[j].roleIds,
                        overlap |-> \E o \in Procs \ {j} :
                                       /\ jobs[o].pc = "assignRoles_tx"
                                       /\ jobs[o].id = jobs'[j].id,
                        res |-> "pending"]
                  ELSE IF /\ jobs[k].pc = "assignRoles_tx"
                          /\ jobs[k].id = jobs'[j].id
                  THEN [calls[k] EXCEPT !.overlap = TRUE]
                  ELSE calls[k]]
    /\ UNCHANGED <<used, revoked, stale, gate>>

AssignRolesCommitH(j) ==
    /\ AssignRolesCommit(j)
    /\ calls' = [calls EXCEPT ![j].res = resp'.res.status]
    /\ UNCHANGED <<used, revoked, stale, gate>>

NextC ==
    \/ \E j \in Procs : AssignRolesCheckH(j)
    \/ \E j \in Procs : AssignRolesCommitH(j)

SpecC == InitP /\ [][NextC]_vars

\* The access control with the history of the guard's answers.
GuardCheckH ==
    /\ GuardCheck
    /\ gate' =
          IF resp'.requiredPermission = NoMetadata \/ resp'.userId = NoUserId
          THEN gate
          ELSE [requiredPermission |-> resp'.requiredPermission,
                userId |-> resp'.userId,
                res |-> resp'.res,
                flipped |-> /\ gate.requiredPermission = resp'.requiredPermission
                            /\ gate.userId = resp'.userId
                            /\ gate.res # resp'.res]
    /\ UNCHANGED <<used, revoked, stale, calls>>

NextG ==
    \/ AssignPermissions /\ NoHistory
    \/ GuardCheckH

SpecG == InitG /\ [][NextG]_vars

\* The role administration, calls overlapping.
NextR ==
    \/ \E j \in Procs : CreateRoleCheck(j) /\ NoHistory
    \/ \E j \in Procs : CreateRoleCreate(j) /\ NoHistory
    \/ \E j \in Procs : UpdateRoleCheck(j) /\ NoHistory
    \/ \E j \in Procs : UpdateRoleUpdate(j) /\ NoHistory

SpecR == Init /\ [][NextR]_vars

\* The sessions of one client: login, refresh, logout and authenticated
\* requests, with the history of the tokens logged out.
NextS ==
    \/ LoginValidate("r1") /\ NoHistory /\ NoRbac
    \/ LoginUpdate("r1") /\ NoHistory /\ NoRbac
    \/ LoginTokens("r1") /\ NoHistory /\ NoRbac
    \/ RefreshCallH("r1") /\ UNCHANGED <<calls, gate>> /\ NoRbac
    \/ RefreshResumeH("r1") /\ UNCHANGED <<calls, gate>> /\ NoRbac
    \/ \E t \in TokenInputs : LogoutH(t) /\ UNCHANGED <<calls, gate>> /\ NoRbac
    \/ \E a \in TokenInputs : GetMe(a) /\ NoHistory /\ NoRbac
    \/ Tick /\ NoHistory /\ NoRbac

SpecS == Init /\ [][NextS]_vars

\* Two users and their sessions: login, refresh, and logout by an
\* authenticated caller.
NextL ==
    \/ LoginValidate("r1") /\ NoHistory /\ NoRbac
    \/ LoginUpdate("r1") /\ NoHistory /\ NoRbac
    \/ LoginTokens("r1") /\ NoHistory /\ NoRbac
    \/ RefreshCall("r1") /\ NoHistory /\ NoRbac
    \/ RefreshResume("r1") /\ NoHistory /\ NoRbac
    \/ \E a, t \in TokenInputs : LogoutAs(a, t) /\ NoHistory /\ NoRbac
    \/ Tick /\ NoHistory /\ NoRbac

SpecL == InitL /\ [][NextL]_vars

\* The registry with two users: login, refresh and logout, under the
\* configuration whose refresh tokens outlive a tick of the clock.
NextO ==
    \/ LoginValidate("r1") /\ NoHistory /\ NoRbac
    \/ LoginUpdate("r1") /\ NoHistory /\ NoRbac
    \/ LoginTokens("r1") /\ NoHistory /\ NoRbac
    \/ RefreshCall("r1") /\ NoHistory /\ NoRbac
    \/ RefreshResume("r1") /\ NoHistory /\ NoRbac
    \/ \E t \in TokenInputs : Logout(t) /\ NoHistory /\ NoRbac
    \/ Tick /\ NoHistory /\ NoRbac

InitO == InitL /\ config.REFRESH_TOKEN_EXPIRATION = 2

SpecO == InitO /\ [][NextO]_vars

\* The authentication core under every accepted environment.
SpecE == InitE /\ [][Next]_vars

\* Gated requests of a user who signs in and whose status is changed.
NextD ==
    \/ LoginValidate("r1") /\ NoHistory /\ NoRbac
    \/ LoginUpdate("r1") /\ NoHistory /\ NoRbac
    \/ LoginTokens("r1") /\ NoHistory /\ NoRbac
    \/ ChangeStatus /\ NoHistory /\ NoRbac
    \/ \E a \in TokenInputs, k \in RequiredInputs :
          GatedRequest(a, k) /\ NoHistory /\ NoRbac
    \/ Tick /\ NoHistory /\ NoRbac

SpecD == InitD /\ [][NextD]_vars

\* The administration of users next to the assignment of their roles.
NextF ==
    \/ CreateUser /\ NoHistory /\ NoRbac
    \/ ChangeStatus /\ NoHistory /\ NoRbac
    \/ AssignRolesCheck("r1") /\ NoHistory
    \/ AssignRolesCommit("r1") /\ NoHistory

SpecF == InitF /\ [][NextF]_vars

\* ------------------------------------------------------------------ events
\* The step is the end of a refresh call of slot p that succeeded.
RefreshSucceeds(p) ==
    /\ procs[p].pc = "refresh_find"
    /\ procs'[p].pc = "idle"
    /\ resp' = Response("refresh", Ok, Ok)

\* The step is a generateTokens call of slot p whose pair is returned.
Issues(p) ==
    /\ procs[p].pc \in {"login_tokens", "refresh_find"}
    /\ procs'[p].pc = "idle"
    /\ resp'.res = Ok

\* The refresh token that generateTokens call signs.
IssuedBy(p) ==
    IF procs[p].pc = "login_tokens"
    THEN generateTokens(procs[p].user.id, procs[p].user.email,
                        procs[p].user.username, now, config).refreshToken
    ELSE generateTokens(procs[p].token.sub, users[procs[p].token.sub].email,
                        users[procs[p].token.sub].username, now,
                        config).refreshToken

\* The step is the transaction of an assignRoles call on user u.
AssignRolesOn(u) ==
    \E j \in Procs :
        /\ jobs[j].pc = "assignRoles_tx"
        /\ jobs'[j].pc = "idle"
        /\ jobs[j].id = u

\* The step is the transaction of an assignPermissions call on role r.
AssignPermissionsOn(r) ==
    /\ resp'.op = "assignPermissions"
    /\ resp'.res.status \in {"ok", "InternalError"}
    /\ resp'.id = r

\* The users that own a login identifier.
Owners(ident) ==
    {id \in DOMAIN users : users[id].email = ident \/ users[id].username = ident}

\* ------------------------------------------------------------------ claims
\* C1: a refresh token can be used in refresh successfully at most once: a
\* refresh call made with a token that an earlier refresh call has already
\* succeeded with fails, whatever happened in between.
C1_RefreshTokenSingleUse ==
    [][\A p \in Procs : RefreshSucceeds(p) => "used" \notin stale[p]]_vars

\* C2: of the refresh calls that overlap while presenting the same registered
\* token, at most one succeeds: a call made before the token was used does
\* not succeed once another call has succeeded with it.
C2_ConcurrentRefreshSingleUse ==
    [][\A p \in Procs :
          RefreshSucceeds(p) /\ "used" \notin stale[p]
              => procs[p].token \notin used]_vars

\* C3: every generateTokens call returns a refresh token distinct from every
\* refresh token an earlier call has returned.
C3_FreshRefreshToken ==
    [][\A p \in Procs : Issues(p) => IssuedBy(p) \notin issued]_vars

\* C4: a refresh call made with a token for which logout has been executed
\* fails, whatever login, refresh and logout happened after the logout.
C4_RevokedStaysRevoked ==
    [][\A p \in Procs : RefreshSucceeds(p) => "revoked" \notin stale[p]]_vars

\* C5: logout returns normally for every token string, and a second logout
\* of the same token leaves the registry as the first one left it.
C5_LogoutIdempotent ==
    /\ \A t \in TokenInputs :
          /\ logout(registry, t).res = Ok
          /\ logout(logout(registry, t).registry, t).registry
                = logout(registry, t).registry
    /\ resp.op = "logout" => resp.res = Ok

\* A logout has been answered after a token had been issued, and some issued
\* token is no longer registered.
C5_Witness ==
    /\ resp.op = "logout"
    /\ \E t \in issued : ~registryHas(registry, t) /\ verify(t, t.secret, now)

\* C6: for every active user and each of the user's non-null identifiers
\* (username, email), validateUser with that identifier and the correct
\* password finds that user: login by the identifier succeeds.
C6_LoginByOwnIdentifier ==
    \A u \in DOMAIN users, pw \in Passwords :
        users[u].isActive /\ comparePassword(pw, users[u].passwordHash) =>
            \A x \in {users[u].email, users[u].username} \ {NULL} :
                validateUser(users, x, pw) = [res |-> Ok, id |-> u]

\* C7: for a user whose isActive is false, validateUser fails with
\* Unauthorized for every password; a login gets past validateUser only with
\* an active user; and the step that answers a login with Unauthorized
\* issues no token, adds no registry entry and updates no lastLoginAt.
C7_InactiveRejected ==
    \A u \in DOMAIN users, pw \in Passwords :
        ~users[u].isActive =>
            \A x \in {users[u].email, users[u].username} \ {NULL} :
                validateUser(users, x, pw).res.status = "Unauthorized"

C7_InactiveLoginStep ==
    /\ \A p \in Procs :
          procs[p].pc = "idle" /\ procs'[p].pc = "login_update"
              => users[procs'[p].user.id].isActive
    /\ resp' # resp /\ resp'.op = "login" /\ resp'.res.status = "Unauthorized"
          => registry' = registry /\ users' = users /\ issued' = issued

C7_InactiveLoginFails == []C7_InactiveRejected /\ [][C7_InactiveLoginStep]_vars

\* A login of the deactivated user has been refused.
C7_Witness ==
    /\ resp = Response("login", Unauthorized("User account is inactive"), Ok)
    /\ ~users[1].isActive

\* C8: a login with an identifier no user owns and a login with the
\* identifier of an active user and a wrong password get the same error.
C8_SameLoginError ==
    \A unknown \in LoginIdents, known \in LoginIdents,
       pw \in Passwords, wrong \in Passwords :
        /\ Owners(unknown) = {}
        /\ \E u \in Owners(known) :
              users[u].isActive /\ ~comparePassword(wrong, users[u].passwordHash)
        => /\ validateUser(users, unknown, pw).res
                = validateUser(users, known, wrong).res
           /\ validateUser(users, unknown, pw).res.status = "Unauthorized"

\* A login has been refused with the generic error while the user is active.
C8_Witness ==
    /\ resp = Response("login", Unauthorized("Invalid credentials"), Ok)
    /\ users[1].isActive

\* C9: every failing refresh is answered Unauthorized 'Invalid refresh
\* token', whichever exception the catch block caught.
C9_GenericRefreshError ==
    resp.op = "refresh" /\ resp.res # Ok
        => resp.res = Unauthorized("Invalid refresh token")

\* A refresh has failed on an exception with another message.
C9_Witness ==
    /\ resp.op = "refresh"
    /\ resp.inner = Unauthorized("User not found or inactive")

\* C10: a refresh that resumes from the re-fetch of its token's owner while
\* that user is missing or inactive fails with Unauthorized and issues no
\* token.
C10_InactiveRefreshFails ==
    [][\A p \in Procs :
          /\ procs[p].pc = "refresh_find"
          /\ procs'[p].pc = "idle"
          /\ \/ procs[p].token.sub \notin DOMAIN users
             \/ ~users[procs[p].token.sub].isActive
          => /\ resp'.op = "refresh"
             /\ resp'.res.status = "Unauthorized"
             /\ issued' = issued]_vars

\* A refresh of a registered, unexpired token has failed on the user check
\* and the token is still registered.
C10_Witness ==
    /\ resp.op = "refresh"
    /\ resp.inner = Unauthorized("User not found or inactive")
    /\ ~users[1].isActive
    /\ \E t \in DOMAIN registry : registry[t] = 1

\* The roles assigned to a user, the permissions granted to a role, and the
\* keys a user holds through their roles.
RolesOf(u) == {row[2] : row \in {x \in userRoles : x[1] = u}}

GrantsOf(r) == {row[2] : row \in {x \in rolePermissions : x[1] = r}}

KeysOf(u) == UNION {{PermissionKeys[p] : p \in GrantsOf(r)} : r \in RolesOf(u)}

BranchRowsOf(u) == {x \in userBranches : x[1] = u}

\* C11: getUserPermissions returns exactly the keys granted to at least one
\* role of the user, each key once; for a user without roles it returns the
\* empty list.
C11_PermissionUnion ==
    \A u \in UserIdInputs :
        LET keys == getUserPermissions(u, userRoles, rolePermissions) IN
        /\ Range(keys) = KeysOf(u)
        /\ Cardinality(Range(keys)) = Len(keys)
        /\ RolesOf(u) = {} => keys = <<>>

\* The user has two roles whose grants overlap without being equal, and
\* three keys are returned.
C11_Witness ==
    /\ RolesOf(1) = {1, 2}
    /\ GrantsOf(1) \cap GrantsOf(2) # {}
    /\ Cardinality(GrantsOf(1)) = 2
    /\ Cardinality(GrantsOf(2)) = 2
    /\ Len(getUserPermissions(1, userRoles, rolePermissions)) = 3

\* C12: for a required key k and an authenticated user u the guard allows
\* iff k is among the keys u holds through their roles, and otherwise
\* denies with Forbidden and a message that names k.
C12_GuardIffHeld ==
    \A u \in GuardUserInputs \ {NoUserId}, k \in RequiredInputs \ {NoMetadata} :
        canActivate(k, u, userRoles, rolePermissions)
            = IF k \in KeysOf(u) THEN Ok
              ELSE Forbidden("Permiso requerido: '" \o k \o "'")

\* The guard has denied a key to a user who holds another key, while some
\* role the user does not have grants the key.
C12_Witness ==
    /\ resp.op = "canActivate"
    /\ resp.res.status = "Forbidden"
    /\ KeysOf(resp.userId) # {}
    /\ \E r \in DOMAIN roles :
          /\ r \notin RolesOf(resp.userId)
          /\ \E p \in GrantsOf(r) : PermissionKeys[p] = resp.requiredPermission

\* C13: the guard allows a handler without a required permission whoever
\* asks, and denies a gated handler to a request without user id with
\* Unauthorized, whatever the roles and grants are.
C13_GuardWithoutData ==
    /\ \A u \in GuardUserInputs :
          canActivate(NoMetadata, u, userRoles, rolePermissions) = Ok
    /\ \A k \in RequiredInputs \ {NoMetadata} :
          canActivate(k, NoUserId, userRoles, rolePermissions)
              = Unauthorized("Usuario no autenticado")

\* The guard has answered Unauthorized for a key that a user holds.
C13_Witness ==
    /\ resp.op = "canActivate"
    /\ resp.res = Unauthorized("Usuario no autenticado")
    /\ resp.requiredPermission \in KeysOf(1)

\* C14: after a successful assignRoles(userId, R) the roles of the user are
\* exactly R, and after a successful assignPermissions(roleId, P) the grants
\* of the role are exactly P.
C14_ReplaceSetExact ==
    /\ resp.op = "assignRoles" /\ resp.res = Ok
          => RolesOf(resp.id) = Range(resp.ids)
    /\ resp.op = "assignPermissions" /\ resp.res = Ok
          => GrantsOf(resp.id) = Range(resp.ids)

\* An assignRoles for one role has succeeded and the user holds one role,
\* while both roles exist.
C14_Witness ==
    /\ resp.op = "assignRoles"
    /\ resp.res = Ok
    /\ Len(resp.ids) = 1
    /\ Cardinality(RolesOf(resp.id)) = 1
    /\ Cardinality(DOMAIN roles) = 2

\* C15: at every step the roles and the branches of a user either stay as
\* they are or become the complete requested set of a replace-set call; a
\* call whose transaction fails changes nothing, and no step empties a set.
C15_ReplaceStep ==
    \A u \in DOMAIN users :
        /\ \/ RolesOf(u)' = RolesOf(u)
           \/ \E j \in Procs :
                /\ jobs[j].pc = "assignRoles_tx"
                /\ jobs'[j].pc = "idle"
                /\ jobs[j].id = u
                /\ RolesOf(u)' = Range(jobs[j].roleIds)
        /\ \/ BranchRowsOf(u)' = BranchRowsOf(u)
           \/ /\ resp'.op = "assignBranches"
              /\ resp'.res.status \in {"ok", "InternalError"}
              /\ resp'.id = u
              /\ BranchRowsOf(u)' = {branchRow(u, resp'.ids[i]) :
                                         i \in 1..Len(resp'.ids)}
        /\ resp' # resp /\ resp'.res = InternalError("transaction")
              => userRoles' = userRoles /\ userBranches' = userBranches
        /\ RolesOf(u) # {} => RolesOf(u)' # {}
        /\ BranchRowsOf(u) # {} => BranchRowsOf(u)' # {}

C15_ReplaceAllOrNothing == [][C15_ReplaceStep]_vars

\* The transaction of an assignRoles has failed and the user still has
\* roles, other than the requested ones.
C15_Witness ==
    /\ resp.op = "assignRoles"
    /\ resp.res = InternalError("transaction")
    /\ RolesOf(resp.id) # {}
    /\ RolesOf(resp.id) # Range(resp.ids)

\* C16: when two assignRoles calls on one user have overlapped and both have
\* completed, the roles of the user are exactly the set one of them
\* requested.
C16_ConcurrentAssignRoles ==
    \A j \in Procs, k \in Procs :
        /\ j # k
        /\ calls[j].overlap /\ calls[k].overlap
        /\ calls[j].id = calls[k].id
        /\ calls[j].res = "ok" /\ calls[k].res = "ok"
        => RolesOf(calls[j].id) \in {Range(calls[j].roleIds),
                                     Range(calls[k].roleIds)}

\* Two overlapping calls with different requests have both completed.
C16_Witness ==
    /\ calls["r1"].overlap /\ calls["r2"].overlap
    /\ calls["r1"].res = "ok" /\ calls["r2"].res = "ok"
    /\ Range(calls["r1"].roleIds) = {1}
    /\ Range(calls["r2"].roleIds) = {2}
    /\ \A j \in Procs : jobs[j].pc = "idle"

\* C17: every guard check of a user for a key answers from the roles and
\* grants as they are at the check: it allows iff the key is held then,
\* whatever the guard answered before.
C17_GuardStep ==
    \A u \in GuardUserInputs \ {NoUserId}, k \in RequiredInputs \ {NoMetadata} :
        /\ resp'.op = "canActivate"
        /\ resp'.requiredPermission = k
        /\ resp'.userId = u
        => /\ resp'.res = Ok <=> k \in KeysOf(u)'
           /\ resp'.res # Ok => resp'.res.status = "Forbidden"

C18_AuditBestEffort ==
    resp.op \in {"createUser", "updateUser", "changeStatus", "assignRoles",
                 "assignBranches", "createRole", "updateRole",
                 "assignPermissions"}
        => resp.res # InternalError("auditLog")

\* C19: every stored user has a username or an email.
C19_UserHasIdentifier ==
    \A u \in DOMAIN users : users[u].username # NULL \/ users[u].email # NULL

\* C20: no two users share a username or an email, no two roles share a
\* name, and a call that would introduce a duplicate is answered Conflict,
\* never with the error of the unique index.
C20_UniqueOrConflict ==
    /\ UniqueUsers(users)
    /\ UniqueRoles(roles)
    /\ resp.op \in {"createUser", "updateUser", "createRole", "updateRole"}
          => resp.res # InternalError("Unique constraint failed")

\* C21: once logout has been executed for a session, none of the session's
\* credentials is accepted until a new login: as long as the registry does
\* not hold the session's refresh token again, no refresh succeeds with it
\* and no authenticated request with the session's access token is let in.
C21_LoggedOutSessionRejected ==
    [][\A t \in revoked :
          ~registryHas(registry, t) =>
             /\ ~(RefreshSucceeds("r1") /\ procs["r1"].token = t)
             /\ ~(GetMe(AccessTwin(t, config)) /\ resp'.res = Ok)]_vars

\* C22: a successful login adds exactly one registry entry, the returned
\* refresh token mapped to the user, and updates only that user's
\* lastLoginAt; every other entry and every other user stay as they were.
\* A login that fails on the identifier, the status or the password leaves
\* the registry and every lastLoginAt unchanged.
C22_LoginFrame ==
    [][\A p \in Procs :
          /\ (procs' = procs /\ resp' # resp /\ resp'.op = "login") =>
                registry' = registry /\ users' = users
          /\ (procs[p].pc = "login_update" /\ procs'[p].pc = "login_tokens") =>
                /\ registry' = registry
                /\ users' = [users EXCEPT
                                ![procs[p].user.id].lastLoginAt = now]
          /\ (procs[p].pc = "login_tokens" /\ Issues(p)) =>
                /\ ~registryHas(registry, IssuedBy(p))
                /\ DOMAIN registry' = DOMAIN registry \cup {IssuedBy(p)}
                /\ registry'[IssuedBy(p)] = procs[p].user.id
                /\ \A t \in DOMAIN registry : registry'[t] = registry[t]
                /\ users' = users]_vars

\* C23: the decision of the guard agrees with the permission resolver: for
\* every user u and permission key k the guard lets a request of u to a
\* handler requiring k pass iff k is in getUserPermissions(u).
C23_GuardAgreesWithResolver ==
    \A u \in DOMAIN users, p \in DOMAIN PermissionKeys :
        (canActivate(PermissionKeys[p], u, userRoles, rolePermissions) = Ok)
          <=> (PermissionKeys[p] \in
                 Range(getUserPermissions(u, userRoles, rolePermissions)))

\* The guard has let a request pass for a key that only the second role of
\* the user grants, while another key is held by no role of the user.
C23_Witness ==
    /\ resp.op = "canActivate"
    /\ resp.res = Ok
    /\ resp.userId = 1
    /\ RolesOf(1) = {1, 2}
    /\ \E p \in GrantsOf(2) \ GrantsOf(1) :
          PermissionKeys[p] = resp.requiredPermission
    /\ GrantsOf(1) # {}
    /\ \E q \in DOMAIN PermissionKeys : q \notin GrantsOf(1) \cup GrantsOf(2)

\* C24: every entry of the registry maps a token to the id of an existing
\* user, and that id is the subject the token carries, so the lookup of
\* refresh never finds an owner other than the subject; and a successful
\* refresh registers the new token under the owner of the token it
\* replaces.
C24_EntryOwner ==
    \A t \in DOMAIN registry : registry[t] \in DOMAIN users /\ registry[t] = t.sub

C24_RefreshKeepsOwner ==
    RefreshSucceeds("r1") =>
        /\ registryHas(registry', IssuedBy("r1"))
        /\ registry'[IssuedBy("r1")] = procs["r1"].token.sub

C24_RegistryOwners == []C24_EntryOwner /\ [][C24_RefreshKeepsOwner]_vars

\* A refresh of the second user has succeeded while the registry holds a
\* token of each user.
C24_Witness ==
    /\ resp = Response("refresh", Ok, Ok)
    /\ \E t1, t2 \in DOMAIN registry :
          /\ registry[t1] = 1
          /\ registry[t2] = 2 /\ t2.iat = now /\ now > 0

\* C25: a logout authenticated as user A removes a registry entry only if
\* A owns the entry.
C25_LogoutOwnEntry ==
    [][(resp'.op = "logout" /\ registry' # registry) =>
          registry[resp'.refreshToken] = resp'.userId]_vars

\* C26: a refresh call that fails, for whatever cause (bad signature or
\* expiry, token not registered, owner mismatch, user missing or inactive,
\* token issuance failing after the lookup of the old entry), leaves the
\* registry exactly as it was before the call.
C26_FailedRefreshKeepsRegistry ==
    [][/\ (procs' = procs /\ resp' # resp /\ resp'.op = "refresh") =>
             registry' = registry
       /\ \A p \in Procs :
             (/\ procs[p].pc = "refresh_find"
              /\ procs'[p].pc = "idle"
              /\ resp'.res # Ok) => registry' = registry]_vars

\* C27: no access token is ever accepted by refresh: a refresh call never
\* succeeds with a token that generateTokens has returned as an access
\* token, under every environment the startup validation accepts.
C27_AccessTokenNeverRefreshes ==
    [][\A p \in Procs :
          RefreshSucceeds(p) =>
              procs[p].token \notin {AccessTwin(t, config) : t \in issued}]_vars

\* C28: assignRoles on an existing user answers NotFound for its roleIds
\* only if some id of the list, which may repeat ids, refers to no role; the
\* error then lists exactly the missing ids and the roles of the user are
\* unchanged.  Likewise assignPermissions on an existing role.
C28_NotFoundOnlyIfMissing ==
    [][(/\ resp' # resp
        /\ resp'.op \in {"assignRoles", "assignPermissions"}
        /\ resp'.res.status = "NotFound"
        /\ resp'.res.msg \in {"Roles no encontrados", "Permisos no encontrados"})
       => LET existing == IF resp'.op = "assignRoles" THEN DOMAIN roles
                          ELSE DOMAIN PermissionKeys
              absent == Range(resp'.ids) \ existing
          IN  /\ absent # {}
              /\ Range(resp'.res.missing) = absent
              /\ userRoles' = userRoles
              /\ rolePermissions' = rolePermissions]_vars

\* C29: while a user is deactivated no gated request that carries the
\* user's identity is let through the guards, even with an unexpired access
\* token and with roles that grant the required permission.
C29_DeactivatedDenied ==
    (/\ resp.op = "canActivate"
     /\ resp.requiredPermission # NoMetadata
     /\ resp.userId # NoUserId
     /\ ~users[resp.userId].isActive) => resp.res # Ok

\* C30: the roles of a user change only in an assignRoles on that user and
\* the grants of a role only in an assignPermissions on that role, so the
\* permission set resolved for a user (by getUserPermissions and by the
\* guard) changes only through an assignRoles on the user or an
\* assignPermissions on a role the user holds; login, refresh, logout,
\* getMe, createUser, updateUser, changeStatus, assignBranches, createRole
\* and updateRole leave every role set and grant set as it is, and a newly
\* created user has an empty permission set.
\* The resolvers read the three tables only, so their results are compared
\* at the steps that change one of them.
C30_Step ==
    /\ \/ UNCHANGED <<roles, rolePermissions, userRoles>>
       \/ \A u \in DOMAIN users :
             \/ /\ getUserPermissions(u, userRoles, rolePermissions)'
                      = getUserPermissions(u, userRoles, rolePermissions)
                /\ guardPermissions(u, userRoles, rolePermissions)'
                      = guardPermissions(u, userRoles, rolePermissions)
             \/ AssignRolesOn(u)
             \/ \E r \in RolesOf(u) : AssignPermissionsOn(r)
    /\ \A u \in DOMAIN users :
          RolesOf(u)' # RolesOf(u) => AssignRolesOn(u)
    /\ \A r \in DOMAIN roles :
          GrantsOf(r)' # GrantsOf(r) => AssignPermissionsOn(r)
    /\ (/\ resp' # resp
        /\ resp'.op \in {"login", "refresh", "logout", "getMe", "createUser",
                         "updateUser", "changeStatus", "assignBranches",
                         "createRole", "updateRole"})
          => userRoles' = userRoles /\ rolePermissions' = rolePermissions
    /\ \A u \in DOMAIN users' \ DOMAIN users :
          /\ getUserPermissions(u, userRoles, rolePermissions)' = <<>>
          /\ guardPermissions(u, userRoles, rolePermissions)' = {}

====
